---- MODULE Spec2Model ----
(***************************************************************************)
(* The session variant of the drawing-and-guessing game server             *)
(* (src/unnamed/part_001, lines 380-827): countdown, session, rounds,      *)
(* intermission, score reset, and the socket event handlers.               *)
(*                                                                         *)
(* Strings that the code trims, lower-cases or compares (display names,    *)
(* words, guess texts) are sequences of one-character strings.  The empty  *)
(* sequence is the falsy string: it stands for "", null and undefined of   *)
(* a string-valued expression.  Socket ids are strings, null is "null".    *)
(* Timer handles are positive integers, 0 is the null handle.              *)
(*                                                                         *)
(* Time.  The clock advances in units of 5000 ms, the greatest common      *)
(* divisor of the delays 5000 ms (intermission), 10000 ms (score reset)    *)
(* and 20000 ms (countdown).  The countdown's 1000 ms interval is taken    *)
(* at that granularity: one firing stands for five callbacks.  The two     *)
(* long delays (ROUND_DURATION 120000 ms, SESSION_DURATION 600000 ms) are  *)
(* not counted: such a timer is "far" (left = 1) from its scheduling until *)
(* a clock step makes it due (left = 0), which any clock step may do.      *)
(* A due timer fires before the clock advances again; inbound events may   *)
(* still be handled before it fires.                                       *)
(***************************************************************************)
EXTENDS Integers, Sequences, FiniteSets, TLC

----------------------------------------------------------------------------
(* Bounds of the model *)

NumSockets == 2
PoolSize == 2
MaxPoints == 30
MaxBoard == 3

----------------------------------------------------------------------------
(* Program constants *)

null == "null"
NoStr == << >>

wordList ==
  <<
     <<"a","p","p","l","e">>, <<"b","a","n","a","n","a">>, <<"c","a","t">>,
     <<"d","o","g">>, <<"c","a","r">>, <<"h","o","u","s","e">>,
     <<"t","r","e","e">>, <<"s","u","n">>, <<"m","o","o","n">>,
     <<"s","t","a","r">>, <<"c","o","m","p","u","t","e","r">>, <<"p","h","o","n","e">>,
     <<"b","o","o","k">>, <<"c","h","a","i","r">>, <<"t","a","b","l","e">>,
     <<"g","u","i","t","a","r">>, <<"p","i","z","z","a">>, <<"c","a","m","e","r","a">>,
     <<"c","l","o","c","k">>, <<"f","l","o","w","e","r">>, <<"m","o","u","n","t","a","i","n">>,
     <<"o","c","e","a","n">>, <<"p","e","n","c","i","l">>, <<"b","o","t","t","l","e">>,
     <<"l","a","m","p">>, <<"d","o","o","r">>, <<"w","i","n","d","o","w">>,
     <<"b","i","r","d">>, <<"f","i","s","h">>, <<"r","o","c","k","e","t">>,
     <<"b","i","c","y","c","l","e">>, <<"u","m","b","r","e","l","l","a">>, <<"b","u","t","t","e","r","f","l","y">>,
     <<"r","a","i","n","b","o","w">>, <<"c","l","o","u","d">>, <<"b","e","a","c","h">>,
     <<"f","o","r","e","s","t">>
  >>

\* Delays in clock units of 5000 ms.
INTERMISSION_DELAY == 1
SCORE_RESET_DELAY == 2
COUNTDOWN_START == 4
MIN_PLAYERS_TO_START == 2
GUESS_POINTS == 10
DRAWER_POINTS == 5

\* ROUND_DURATION and SESSION_DURATION: the delays that are not counted.
LongKinds == {"round", "session"}

----------------------------------------------------------------------------
(* Inputs *)

\* The ids of the connections, in the order in which they are accepted.
SocketIds == <<"s1", "s2", "s3", "s4", "s5", "s6">>

\* selectRandomWord draws from the first PoolSize words of wordList.
Pool == {wordList[i] : i \in 1..PoolSize}

\* The name a client sends with join: each client has a name of its own; the
\* third sends a blank one.
JoinName(id) ==
  CASE id = "s1" -> <<" ", "A", " ">>
    [] id = "s2" -> <<"B">>
    [] id = "s4" -> <<"D", " ">>
    [] id = "s5" -> <<"\t", "E">>
    [] OTHER -> <<" ">>

\* The from field of a chat or guess payload: absent, or a display name.
FromNames == { NoStr, <<"A">> }

----------------------------------------------------------------------------
(* String functions of the JavaScript runtime *)

WhiteSpace == {" ", "\t", "\n"}

UpperAlpha == <<"A","B","C","D","E","F","G","H","I","J","K","L","M",
                "N","O","P","Q","R","S","T","U","V","W","X","Y","Z">>
LowerAlpha == <<"a","b","c","d","e","f","g","h","i","j","k","l","m",
                "n","o","p","q","r","s","t","u","v","w","x","y","z">>

RECURSIVE TrimStart(_)
TrimStart(str) ==
  IF str # << >> /\ Head(str) \in WhiteSpace THEN TrimStart(Tail(str)) ELSE str

RECURSIVE TrimEnd(_)
TrimEnd(str) ==
  IF str # << >> /\ str[Len(str)] \in WhiteSpace
  THEN TrimEnd(SubSeq(str, 1, Len(str) - 1))
  ELSE str

\* String.prototype.trim
Trim(str) == TrimEnd(TrimStart(str))

LowerChar(c) ==
  IF \E i \in 1..Len(UpperAlpha) : UpperAlpha[i] = c
  THEN LowerAlpha[CHOOSE i \in 1..Len(UpperAlpha) : UpperAlpha[i] = c]
  ELSE c

UpperChar(c) ==
  IF \E i \in 1..Len(LowerAlpha) : LowerAlpha[i] = c
  THEN UpperAlpha[CHOOSE i \in 1..Len(LowerAlpha) : LowerAlpha[i] = c]
  ELSE c

\* The string as it is.
ToLowerCaseAsIs(str) == str

\* String.prototype.toLowerCase
ToLowerCase(str) == [i \in 1..Len(str) |-> LowerChar(str[i])]

\* `Player_${socket.id.slice(0, 4)}`
FallbackName(id) == <<"Player_", id>>

\* Texts a client sends with guess: blank, a wrong word, and each pool word
\* capitalised and padded with blanks.
Padded(w) == <<" ", UpperChar(Head(w))>> \o Tail(w) \o <<" ">>
GuessTexts == { <<" ">>, <<"x">> } \cup { Padded(w) : w \in Pool }

\* Texts a client sends with chat.
ChatTexts == { NoStr, <<"h", "i">> }

----------------------------------------------------------------------------
(* State *)

VARIABLES
  users,            \* sequence of [id, name]: the object socketId => username, in key order
  scores,           \* sequence of [name, pts]: the object username => points, in key order
  currentDrawer,    \* socket id or null
  currentWord,      \* a word, or NoStr for null
  gameActive,
  roundTimer,       \* timer handle or 0
  roundStartTime,   \* TRUE when set, FALSE when null
  roundEndTime,     \* TRUE when set, FALSE when null
  sessionStartTime, \* TRUE when set, FALSE when null
  sessionTimer,     \* timer handle or 0
  countdownTimer,   \* timer handle or 0
  timers,           \* pending timers of the event loop: [h, kind, left, n]
  conns,            \* ids of the connected sockets
  opened            \* number of connections accepted so far

vars == <<users, scores, currentDrawer, currentWord, gameActive, roundTimer,
          roundStartTime, roundEndTime, sessionStartTime, sessionTimer,
          countdownTimer, timers, conns, opened>>

\* The state as one value, at the start of a step.  A step also yields out,
\* the notifications it emits in order, and log, the functions it enters in
\* order; both start empty and are not kept from one step to the next.
Cur ==
  [users |-> users, scores |-> scores, currentDrawer |-> currentDrawer,
   currentWord |-> currentWord, gameActive |-> gameActive,
   roundTimer |-> roundTimer, roundStartTime |-> roundStartTime,
   roundEndTime |-> roundEndTime, sessionStartTime |-> sessionStartTime,
   sessionTimer |-> sessionTimer, countdownTimer |-> countdownTimer,
   timers |-> timers, conns |-> conns, opened |-> opened,
   out |-> << >>, log |-> << >>]

\* The step's result becomes the next state; its notifications are sent.
Becomes(s) ==
  /\ users' = s.users
  /\ scores' = s.scores
  /\ currentDrawer' = s.currentDrawer
  /\ currentWord' = s.currentWord
  /\ gameActive' = s.gameActive
  /\ roundTimer' = s.roundTimer
  /\ roundStartTime' = s.roundStartTime
  /\ roundEndTime' = s.roundEndTime
  /\ sessionStartTime' = s.sessionStartTime
  /\ sessionTimer' = s.sessionTimer
  /\ countdownTimer' = s.countdownTimer
  /\ timers' = s.timers
  /\ conns' = s.conns
  /\ opened' = s.opened

----------------------------------------------------------------------------
(* The objects users and scores *)

\* Object.keys(users)
Keys(s) == [i \in 1..Len(s.users) |-> s.users[i].id]

\* Object.values(users)
Values(s) == [i \in 1..Len(s.users) |-> s.users[i].name]

HasUser(s, id) == \E i \in 1..Len(s.users) : s.users[i].id = id

\* users[id]: the name, or NoStr for undefined
NameOf(s, id) ==
  IF HasUser(s, id)
  THEN s.users[CHOOSE i \in 1..Len(s.users) : s.users[i].id = id].name
  ELSE NoStr

\* users[id] = n: a new key goes last, an existing key keeps its place
SetUser(s, id, n) ==
  IF HasUser(s, id)
  THEN [s EXCEPT !.users =
          [i \in 1..Len(s.users) |->
             IF s.users[i].id = id THEN [id |-> id, name |-> n] ELSE s.users[i]]]
  ELSE [s EXCEPT !.users = Append(@, [id |-> id, name |-> n])]

RECURSIVE Without(_, _)
Without(seq, id) ==
  IF seq = << >> THEN << >>
  ELSE IF Head(seq).id = id THEN Without(Tail(seq), id)
  ELSE <<Head(seq)>> \o Without(Tail(seq), id)

\* delete users[id]
DeleteUser(s, id) == [s EXCEPT !.users = Without(@, id)]

HasScore(s, n) == \E i \in 1..Len(s.scores) : s.scores[i].name = n

\* scores[n] || 0
ScoreOf(s, n) ==
  IF HasScore(s, n)
  THEN s.scores[CHOOSE i \in 1..Len(s.scores) : s.scores[i].name = n].pts
  ELSE 0

\* scores[n] = v
SetScore(s, n, v) ==
  IF HasScore(s, n)
  THEN [s EXCEPT !.scores =
          [i \in 1..Len(s.scores) |->
             IF s.scores[i].name = n THEN [name |-> n, pts |-> v] ELSE s.scores[i]]]
  ELSE [s EXCEPT !.scores = Append(@, [name |-> n, pts |-> v])]

\* An indexOf that counts from 1.
IndexOfFromOne(seq, x) ==
  IF \E i \in 1..Len(seq) : seq[i] = x
  THEN CHOOSE i \in 1..Len(seq) : seq[i] = x /\ \A j \in 1..(i - 1) : seq[j] # x
  ELSE -1

\* Array.prototype.indexOf, 0-based, -1 when absent
IndexOf(seq, x) ==
  IF \E i \in 1..Len(seq) : seq[i] = x
  THEN (CHOOSE i \in 1..Len(seq) : seq[i] = x /\ \A j \in 1..(i - 1) : seq[j] # x) - 1
  ELSE -1

\* Insert e into a sequence sorted by non-increasing pts, after its equals.
RECURSIVE InsertByPts(_, _)
InsertByPts(seq, e) ==
  IF seq = << >> THEN <<e>>
  ELSE IF Head(seq).pts >= e.pts THEN <<Head(seq)>> \o InsertByPts(Tail(seq), e)
  ELSE <<e>> \o seq

\* The entries in the order of the board, not sorted.
SortedScoresAsIs(seq) == seq

\* Object.entries(scores).sort((a, b) => b[1] - a[1]): a stable sort
RECURSIVE SortedScores(_)
SortedScores(seq) ==
  IF seq = << >> THEN << >>
  ELSE InsertByPts(SortedScores(SubSeq(seq, 1, Len(seq) - 1)), seq[Len(seq)])

----------------------------------------------------------------------------
(* Notifications *)

ToAll == [mode |-> "all", id |-> null]
ToOnly(id) == [mode |-> "only", id |-> id]
ToOthers(id) == [mode |-> "others", id |-> id]

Emit(s, ev, to, body) ==
  [s EXCEPT !.out = Append(@, [ev |-> ev, to |-> to, body |-> body])]

System == <<"System">>

\* A chat message of the controller: kind names the template, arg its values.
SysChat(s, to, kind, arg) ==
  Emit(s, "chatMessage", to, [from |-> System, kind |-> kind, arg |-> arg])

\* A chat message relayed for a participant.
UserChat(s, player, text) ==
  Emit(s, "chatMessage", ToAll, [from |-> player, kind |-> "user", arg |-> text])

broadcastUserList(s) == Emit(s, "userList", ToAll, Values(s))

broadcastScores(s) == Emit(s, "scoreUpdate", ToAll, s.scores)

\* timeRemaining and sessionTimeRemaining are clock readings and are left out.
\* broadcastGameState that sends the word along.
broadcastGameStateWithWord(s) ==
  Emit(s, "gameState", ToAll,
       [gameActive |-> s.gameActive,
        currentDrawer |-> IF s.currentDrawer # null
                          THEN NameOf(s, s.currentDrawer) ELSE NoStr,
        hasWord |-> s.currentWord # NoStr,
        word |-> s.currentWord])

broadcastGameState(s) ==
  Emit(s, "gameState", ToAll,
       [gameActive |-> s.gameActive,
        currentDrawer |-> IF s.currentDrawer # null
                          THEN NameOf(s, s.currentDrawer) ELSE NoStr,
        hasWord |-> s.currentWord # NoStr])

\* The functions and handlers a step enters: the name, the socket of the
\* event (null for a function or a timer) and the state found on entry.
Enter(s, fn, sock) ==
  [s EXCEPT !.log = Append(@, [fn |-> fn, sock |-> sock,
                               hadWord |-> s.currentWord # NoStr,
                               players |-> Len(s.users),
                               active |-> s.gameActive,
                               drawer |-> s.currentDrawer])]

----------------------------------------------------------------------------
(* Timers *)

\* Handles are numbered per kind of timer: (kind, h) names a timer.
Held(s, kind) ==
  CASE kind = "round" -> {s.roundTimer}
    [] kind = "session" -> {s.sessionTimer}
    [] kind = "countdown" -> {s.countdownTimer}
    [] OTHER -> {}

Handles(s, kind) == {t.h : t \in {u \in s.timers : u.kind = kind}} \cup Held(s, kind)

\* A handle that names no pending timer and is held by no variable.
NewHandle(s, kind) ==
  CHOOSE h \in 1..(Cardinality(Handles(s, kind)) + 1) :
    h \notin Handles(s, kind) /\ \A g \in 1..(h - 1) : g \in Handles(s, kind)

\* setTimeout / setInterval: the timer gets the handle NewHandle(s, kind).
setTimer(s, kind, left, n) ==
  [s EXCEPT !.timers = @ \cup {[h |-> NewHandle(s, kind), kind |-> kind,
                                left |-> left, n |-> n]}]

\* clearTimeout / clearInterval
clearTimer(s, kind, h) == [s EXCEPT !.timers = {t \in @ : ~(t.kind = kind /\ t.h = h)}]

----------------------------------------------------------------------------
(* The controller's functions.  With(v, F) is F(v) with v evaluated first:  *)
(* the statements of a function body, in order.                             *)

With(v, F(_)) == CHOOSE r \in {F(x) : x \in {v}} : TRUE

\* getNextDrawer without the wrap from the last key to the first.
getNextDrawerNoWrap(s) ==
  LET socketIds == Keys(s)
      currentIndex == IndexOf(socketIds, s.currentDrawer)
      nextIndex == currentIndex + 1
  IN IF Len(socketIds) = 0 \/ nextIndex >= Len(socketIds) THEN null
     ELSE socketIds[nextIndex + 1]

\* getNextDrawer that wraps backwards from a drawer that is not in the roster.
getNextDrawerFromLast(s) ==
  LET socketIds == Keys(s)
      currentIndex == IndexOf(socketIds, s.currentDrawer)
      nextIndex == (currentIndex + Len(socketIds)) % Len(socketIds)
  IN IF Len(socketIds) = 0 THEN null
     ELSE IF currentIndex = -1 THEN socketIds[nextIndex + 1]
     ELSE socketIds[((currentIndex + 1) % Len(socketIds)) + 1]

getNextDrawer(s) ==
  LET socketIds == Keys(s)
      currentIndex == IndexOf(socketIds, s.currentDrawer)
      nextIndex == (currentIndex + 1) % Len(socketIds)
  IN IF Len(socketIds) = 0 THEN null ELSE socketIds[nextIndex + 1]

\* The start of a round that schedules no round timeout.
BeginRoundUntimed(s, w) ==
  With([s EXCEPT !.currentWord = w, !.roundStartTime = TRUE, !.roundEndTime = TRUE],
    LAMBDA s2 :
  With(Emit(s2, "clearBoard", ToAll, << >>), LAMBDA s3 :
  With(SysChat(s3, ToAll, "nowDrawing", NameOf(s3, s3.currentDrawer)), LAMBDA s4 :
  With(Emit(s4, "yourWord", ToOnly(s4.currentDrawer), [word |-> s4.currentWord]),
    LAMBDA s5 :
  With(broadcastGameState(s5), LAMBDA s6 :
  setTimer(s6, "ticker", 0, 0))))))

\* The statements of startNewRound after the check of currentDrawer.
\* w is the word selectRandomWord returns.
BeginRound(s, w) ==
  With([s EXCEPT !.currentWord = w, !.roundStartTime = TRUE, !.roundEndTime = TRUE],
    LAMBDA s2 :
  With(Emit(s2, "clearBoard", ToAll, << >>), LAMBDA s3 :
  With(SysChat(s3, ToAll, "nowDrawing", NameOf(s3, s3.currentDrawer)), LAMBDA s4 :
  With(Emit(s4, "yourWord", ToOnly(s4.currentDrawer), [word |-> s4.currentWord]),
    LAMBDA s5 :
  With(broadcastGameState(s5), LAMBDA s6 :
  With(IF s6.roundTimer # 0 THEN clearTimer(s6, "round", s6.roundTimer) ELSE s6,
    LAMBDA s7 :
  With([setTimer(s7, "round", 1, 0) EXCEPT !.roundTimer = NewHandle(s7, "round")],
    LAMBDA s8 :
  setTimer(s8, "ticker", 0, 0))))))))

startNewRound(s, w) ==
  With(Enter(s, "startNewRound", null), LAMBDA e :
  With([e EXCEPT !.currentDrawer = getNextDrawer(e)], LAMBDA s1 :
  IF s1.currentDrawer = null THEN s1 ELSE BeginRound(s1, w)))

\* sessionTimeRemaining <= 0: SESSION_DURATION has elapsed since sessionStartTime,
\* which startSession sets in the step that schedules the session timer.
SessionExpired(s) ==
  \E t \in s.timers : t.h = s.sessionTimer /\ t.kind = "session" /\ t.left = 0

\* The sessionEnded notification and the chat messages that follow it.
Announce(s, sortedScores) ==
  IF Len(sortedScores) > 0
  THEN With(Emit(s, "sessionEnded", ToAll,
                 [winner |-> sortedScores[1].name, finalScores |-> s.scores,
                  leaderboard |-> sortedScores]), LAMBDA s1 :
       With(SysChat(s1, ToAll, "gameOver", sortedScores[1]), LAMBDA s2 :
       [s2 EXCEPT !.out = @ \o
          [i \in 1..(IF Len(sortedScores) < 3 THEN Len(sortedScores) ELSE 3) |->
             [ev |-> "chatMessage", to |-> ToAll,
              body |-> [from |-> System, kind |-> "medal",
                        arg |-> <<i, sortedScores[i]>>]]]]))
  ELSE Emit(s, "sessionEnded", ToAll,
            [winner |-> NoStr, finalScores |-> << >>, leaderboard |-> << >>])

\* endSession that leaves currentDrawer as it is.
endSessionKeepsDrawer(s) ==
  With(Enter(s, "endSession", null), LAMBDA e :
  With(IF e.roundTimer # 0 THEN clearTimer(e, "round", e.roundTimer) ELSE e,
    LAMBDA s1 :
  With(IF s1.sessionTimer # 0 THEN clearTimer(s1, "session", s1.sessionTimer) ELSE s1,
    LAMBDA s2 :
  With(IF s2.countdownTimer # 0 THEN clearTimer(s2, "countdown", s2.countdownTimer) ELSE s2,
    LAMBDA s3 :
  With([s3 EXCEPT !.roundTimer = 0, !.sessionTimer = 0, !.countdownTimer = 0,
                  !.gameActive = FALSE,
                  !.currentWord = NoStr, !.roundStartTime = FALSE,
                  !.roundEndTime = FALSE, !.sessionStartTime = FALSE],
    LAMBDA s4 :
  With(SortedScores(s4.scores), LAMBDA sortedScores :
  With(Announce(s4, sortedScores), LAMBDA s5 :
  With(Emit(s5, "clearBoard", ToAll, << >>), LAMBDA s6 :
  With(broadcastGameState(s6), LAMBDA s7 :
  setTimer(s7, "reset", SCORE_RESET_DELAY, 0))))))))))

endSession(s) ==
  With(Enter(s, "endSession", null), LAMBDA e :
  With(IF e.roundTimer # 0 THEN clearTimer(e, "round", e.roundTimer) ELSE e,
    LAMBDA s1 :
  With(IF s1.sessionTimer # 0 THEN clearTimer(s1, "session", s1.sessionTimer) ELSE s1,
    LAMBDA s2 :
  With(IF s2.countdownTimer # 0 THEN clearTimer(s2, "countdown", s2.countdownTimer) ELSE s2,
    LAMBDA s3 :
  With([s3 EXCEPT !.roundTimer = 0, !.sessionTimer = 0, !.countdownTimer = 0,
                  !.gameActive = FALSE, !.currentDrawer = null,
                  !.currentWord = NoStr, !.roundStartTime = FALSE,
                  !.roundEndTime = FALSE, !.sessionStartTime = FALSE],
    LAMBDA s4 :
  With(SortedScores(s4.scores), LAMBDA sortedScores :
  With(Announce(s4, sortedScores), LAMBDA s5 :
  With(Emit(s5, "clearBoard", ToAll, << >>), LAMBDA s6 :
  With(broadcastGameState(s6), LAMBDA s7 :
  setTimer(s7, "reset", SCORE_RESET_DELAY, 0))))))))))

\* The end of a round that leaves currentWord as it is.
FinishRoundKeepsWord(s, someoneGuessed) ==
  With(SysChat(s, ToAll, IF someoneGuessed THEN "roundEnded" ELSE "timesUp",
               s.currentWord), LAMBDA s2 :
  With([s2 EXCEPT !.roundStartTime = FALSE, !.roundEndTime = FALSE], LAMBDA s3 :
  IF ~s3.gameActive \/ ~s3.sessionStartTime THEN s3
  ELSE IF SessionExpired(s3) THEN endSession(s3)
  ELSE setTimer(s3, "intermission", INTERMISSION_DELAY, 0)))

\* The statements of endRound after the check of currentWord.
FinishRound(s, someoneGuessed) ==
  With(SysChat(s, ToAll, IF someoneGuessed THEN "roundEnded" ELSE "timesUp",
               s.currentWord), LAMBDA s2 :
  With([s2 EXCEPT !.currentWord = NoStr, !.roundStartTime = FALSE,
                  !.roundEndTime = FALSE], LAMBDA s3 :
  IF ~s3.gameActive \/ ~s3.sessionStartTime THEN s3
  ELSE IF SessionExpired(s3) THEN endSession(s3)
  ELSE setTimer(s3, "intermission", INTERMISSION_DELAY, 0)))

\* endRound without its first statement: the round timer is left pending.
endRoundKeepsTimer(s, someoneGuessed) ==
  With(Enter(s, "endRound", null), LAMBDA e :
  IF e.currentWord = NoStr THEN e ELSE FinishRound(e, someoneGuessed))

endRound(s, someoneGuessed) ==
  With(Enter(s, "endRound", null), LAMBDA e :
  With(IF e.roundTimer # 0
       THEN [clearTimer(e, "round", e.roundTimer) EXCEPT !.roundTimer = 0]
       ELSE e, LAMBDA s1 :
  IF s1.currentWord = NoStr THEN s1 ELSE FinishRound(s1, someoneGuessed)))

\* startSession that schedules no session timeout.
startSessionUntimed(s, w) ==
  With(Enter(s, "startSession", null), LAMBDA e :
  With([e EXCEPT !.sessionStartTime = TRUE, !.gameActive = TRUE], LAMBDA s1 :
  With(SysChat(s1, ToAll, "sessionStarted", << >>), LAMBDA s2 :
  startNewRound(s2, w))))

startSession(s, w) ==
  With(Enter(s, "startSession", null), LAMBDA e :
  With([e EXCEPT !.sessionStartTime = TRUE, !.gameActive = TRUE], LAMBDA s1 :
  With(SysChat(s1, ToAll, "sessionStarted", << >>), LAMBDA s2 :
  With(startNewRound(s2, w), LAMBDA s3 :
  With(IF s3.sessionTimer # 0 THEN clearTimer(s3, "session", s3.sessionTimer) ELSE s3,
    LAMBDA s4 :
  [setTimer(s4, "session", 1, 0) EXCEPT !.sessionTimer = NewHandle(s4, "session")])))))

startCountdown(s) ==
  With(Enter(s, "startCountdown", null), LAMBDA e :
  With(IF e.countdownTimer # 0 THEN clearTimer(e, "countdown", e.countdownTimer) ELSE e,
    LAMBDA s1 :
  With(Emit(s1, "countdown", ToAll, [units |-> COUNTDOWN_START]), LAMBDA s2 :
  [setTimer(s2, "countdown", 1, COUNTDOWN_START)
     EXCEPT !.countdownTimer = NewHandle(s2, "countdown")])))

----------------------------------------------------------------------------
(* Timer callbacks.  t is the pending timer that fires. *)

Fired(s, t) == [s EXCEPT !.timers = @ \ {t}]

\* The interval of startCountdown; it stays scheduled until it is cleared.
countdownCallback(s, t, w) ==
  With(Enter(s, "countdownCallback", null), LAMBDA e :
  With([e EXCEPT !.timers = (@ \ {t}) \cup {[t EXCEPT !.left = 1, !.n = t.n - 1]}],
    LAMBDA s1 :
  With(Emit(s1, "countdown", ToAll, [units |-> t.n - 1]), LAMBDA s2 :
  IF t.n - 1 <= 0
  THEN With([clearTimer(s2, "countdown", s2.countdownTimer) EXCEPT !.countdownTimer = 0],
         LAMBDA s3 : startSession(s3, w))
  ELSE s2)))

\* The round timeout that gives the drawer points for a round nobody guessed.
roundCallbackAwardsDrawer(s, t) ==
  With(Enter(Fired(s, t), "roundCallback", null), LAMBDA e :
  With(SetScore(e, NameOf(e, e.currentDrawer),
                ScoreOf(e, NameOf(e, e.currentDrawer)) + DRAWER_POINTS), LAMBDA s1 :
  endRound(s1, FALSE)))

\* The timeout of startNewRound
roundCallback(s, t) ==
  With(Enter(Fired(s, t), "roundCallback", null), LAMBDA e : endRound(e, FALSE))

\* The timeout of startSession that leaves the session as it is.
sessionCallbackIdle(s, t) ==
  Enter(Fired(s, t), "sessionCallback", null)

\* The timeout of startSession
sessionCallback(s, t) ==
  With(Enter(Fired(s, t), "sessionCallback", null), LAMBDA e : endSession(e))

\* The timeout of endRound that starts nothing.
intermissionCallbackIdle(s, t, w) ==
  Enter(Fired(s, t), "intermissionCallback", null)

\* The timeout of endRound
intermissionCallback(s, t, w) ==
  With(Enter(Fired(s, t), "intermissionCallback", null), LAMBDA e :
  IF Len(Keys(e)) >= 1 /\ e.gameActive THEN startNewRound(e, w)
  ELSE IF Len(Keys(e)) < 1 THEN endSession(e)
  ELSE e)

\* The timeout of endSession
resetCallback(s, t) ==
  With(Enter(Fired(s, t), "resetCallback", null), LAMBDA e :
  With([e EXCEPT !.scores = << >>], LAMBDA s1 : broadcastScores(s1)))

\* The interval of startNewRound
tickerCallback(s, t) ==
  With(Enter(s, "tickerCallback", null), LAMBDA e :
  IF ~e.gameActive \/ e.currentWord = NoStr
  THEN clearTimer(e, "ticker", t.h)
  ELSE broadcastGameState(e))

----------------------------------------------------------------------------
(* Socket event handlers *)

onConnection(s, id) ==
  With(Enter([s EXCEPT !.conns = @ \cup {id}, !.opened = @ + 1], "connection", id),
    LAMBDA e :
  With(Emit(e, "scoreUpdate", ToOnly(id), e.scores), LAMBDA s1 :
  With(Emit(s1, "userList", ToOnly(id), Values(s1)), LAMBDA s2 :
  broadcastGameState(s2))))

\* The join handler with a countdown for every roster of two or more.
onJoinAtLeastTwo(s, id, name) ==
  With(Enter(s, "join", id), LAMBDA e :
  With(IF Trim(name) # NoStr THEN Trim(name) ELSE FallbackName(id), LAMBDA n :
  With(SetUser(e, id, n), LAMBDA s1 :
  With(IF ScoreOf(s1, n) = 0 THEN SetScore(s1, n, 0) ELSE s1, LAMBDA s2 :
  With(broadcastUserList(s2), LAMBDA s2a :
  With(broadcastScores(s2a), LAMBDA s3 :
  With(SysChat(s3, ToOnly(id), "welcome", n), LAMBDA s4 :
  With(SysChat(s4, ToOthers(id), "joined", n), LAMBDA s5 :
  IF Len(Keys(s5)) >= MIN_PLAYERS_TO_START /\ ~s5.gameActive
     /\ ~s5.sessionStartTime /\ s5.countdownTimer = 0
  THEN With(SysChat(s5, ToAll, "startingSoon", << >>), LAMBDA s6 : startCountdown(s6))
  ELSE s5))))))))

onJoin(s, id, name) ==
  With(Enter(s, "join", id), LAMBDA e :
  With(IF Trim(name) # NoStr THEN Trim(name) ELSE FallbackName(id), LAMBDA n :
  With(SetUser(e, id, n), LAMBDA s1 :
  With(IF ScoreOf(s1, n) = 0 THEN SetScore(s1, n, 0) ELSE s1, LAMBDA s2 :
  With(broadcastUserList(s2), LAMBDA s2a :
  With(broadcastScores(s2a), LAMBDA s3 :
  With(SysChat(s3, ToOnly(id), "welcome", n), LAMBDA s4 :
  With(SysChat(s4, ToOthers(id), "joined", n), LAMBDA s5 :
  IF Len(Keys(s5)) = MIN_PLAYERS_TO_START /\ ~s5.gameActive
     /\ ~s5.sessionStartTime /\ s5.countdownTimer = 0
  THEN With(SysChat(s5, ToAll, "startingSoon", << >>), LAMBDA s6 : startCountdown(s6))
  ELSE s5))))))))

\* The disconnect handler that deletes the score entry with the user.
DepartDropsScore(s, id, name) ==
  With(IF id = s.currentDrawer /\ s.gameActive
       THEN With(SysChat(s, ToAll, "drawerDisconnected", name),
              LAMBDA s0 : endRound(s0, FALSE))
       ELSE SysChat(s, ToAll, "disconnected", name), LAMBDA s1 :
  With([DeleteUser(s1, id) EXCEPT
          !.scores = SelectSeq(@, LAMBDA e : e.name # name)], LAMBDA s1a :
  With(broadcastUserList(s1a), LAMBDA s2 :
  IF Len(Keys(s2)) < 1 /\ s2.gameActive THEN endSession(s2) ELSE s2)))

\* The statements of the disconnect handler for a socket that has a name.
Depart(s, id, name) ==
  With(IF id = s.currentDrawer /\ s.gameActive
       THEN With(SysChat(s, ToAll, "drawerDisconnected", name),
              LAMBDA s0 : endRound(s0, FALSE))
       ELSE SysChat(s, ToAll, "disconnected", name), LAMBDA s1 :
  With(DeleteUser(s1, id), LAMBDA s1a :
  With(broadcastUserList(s1a), LAMBDA s2 :
  IF Len(Keys(s2)) < 1 /\ s2.gameActive THEN endSession(s2) ELSE s2)))

onDisconnect(s, id) ==
  With(Enter([s EXCEPT !.conns = @ \ {id}], "disconnect", id), LAMBDA e :
  IF NameOf(e, id) = NoStr THEN e ELSE Depart(e, id, NameOf(e, id)))

\* The statements of the leaveGame handler for a socket that has a name.
Leave(s, id, name) ==
  With(SysChat(s, ToAll, "left", name), LAMBDA s1 :
  With(IF id = s1.currentDrawer /\ s1.gameActive
       THEN With(SysChat(s1, ToAll, "drawerLeft", name),
              LAMBDA s0 : endRound(s0, FALSE))
       ELSE s1, LAMBDA s2 :
  With(DeleteUser(s2, id), LAMBDA s2a :
  With(broadcastUserList(s2a), LAMBDA s3 :
  IF Len(Keys(s3)) < 1 /\ s3.gameActive
  THEN With(SysChat(s3, ToAll, "notEnoughPlayers", << >>),
         LAMBDA s4 : endSession(s4))
  ELSE s3))))

\* socket.disconnect() at the end runs the disconnect handler.
onLeaveGame(s, id) ==
  With(Enter(s, "leaveGame", id), LAMBDA e :
  With(IF NameOf(e, id) # NoStr THEN Leave(e, id, NameOf(e, id)) ELSE e, LAMBDA s1 :
  onDisconnect(s1, id)))

\* The stroke handler without the check of the sender against currentDrawer.
onStrokeOfAnyone(s, id, stroke) ==
  With(Enter(s, "stroke", id), LAMBDA e :
  IF stroke.from # null /\ stroke.to # null
  THEN Emit(e, "remoteStroke", ToOthers(id), stroke)
  ELSE e)

\* stroke is [from, to]; a missing point is null.
onStroke(s, id, stroke) ==
  With(Enter(s, "stroke", id), LAMBDA e :
  IF id # e.currentDrawer THEN e
  ELSE IF stroke.from # null /\ stroke.to # null
       THEN Emit(e, "remoteStroke", ToOthers(id), stroke)
       ELSE e)

onClear(s, id) ==
  With(Enter(s, "clear", id), LAMBDA e :
  IF id # e.currentDrawer THEN e ELSE Emit(e, "clearBoard", ToAll, << >>))

\* from || users[socket.id] || `Player_${socket.id.slice(0, 4)}`
PlayerOf(s, id, from) ==
  IF from # NoStr THEN from
  ELSE IF NameOf(s, id) # NoStr THEN NameOf(s, id)
  ELSE FallbackName(id)

onChat(s, id, from, text) ==
  With(Enter(s, "chat", id), LAMBDA e : UserChat(e, PlayerOf(e, id, from), text))

\* The statements of the guess handler for a guess that equals the word.
Award(s, player) ==
  With(SetScore(s, player, ScoreOf(s, player) + GUESS_POINTS), LAMBDA s2 :
  With(NameOf(s2, s2.currentDrawer), LAMBDA drawerName :
  With(IF drawerName # NoStr
       THEN SetScore(s2, drawerName, ScoreOf(s2, drawerName) + DRAWER_POINTS)
       ELSE s2, LAMBDA s3 :
  With(SysChat(s3, ToAll, "guessedCorrectly", <<player, drawerName>>), LAMBDA s4 :
  With(broadcastScores(s4), LAMBDA s5 :
  endRound(s5, TRUE))))))

\* The guess handler without the check of the sender against currentDrawer.
onGuessOfAnyone(s, id, from, text) ==
  With(Enter(s, "guess", id), LAMBDA e :
  With(Trim(text), LAMBDA guessText :
  With(PlayerOf(e, id, from), LAMBDA player :
  IF guessText = NoStr THEN e
  ELSE With(UserChat(e, player, guessText), LAMBDA s1 :
       IF ~s1.gameActive \/ s1.currentWord = NoStr THEN s1
       ELSE IF ToLowerCase(guessText) = ToLowerCase(s1.currentWord)
            THEN Award(s1, player)
            ELSE s1))))

onGuess(s, id, from, text) ==
  With(Enter(s, "guess", id), LAMBDA e :
  With(Trim(text), LAMBDA guessText :
  With(PlayerOf(e, id, from), LAMBDA player :
  IF guessText = NoStr THEN e
  ELSE With(UserChat(e, player, guessText), LAMBDA s1 :
       IF id = s1.currentDrawer THEN s1
       ELSE IF ~s1.gameActive \/ s1.currentWord = NoStr THEN s1
       ELSE IF ToLowerCase(guessText) = ToLowerCase(s1.currentWord)
            THEN Award(s1, player)
            ELSE s1))))

----------------------------------------------------------------------------
(* The state machine *)

Init ==
  /\ users = << >>
  /\ scores = << >>
  /\ currentDrawer = null
  /\ currentWord = NoStr
  /\ gameActive = FALSE
  /\ roundTimer = 0
  /\ roundStartTime = FALSE
  /\ roundEndTime = FALSE
  /\ sessionStartTime = FALSE
  /\ sessionTimer = 0
  /\ countdownTimer = 0
  /\ timers = {}
  /\ conns = {}
  /\ opened = 0

StrokeInputs == { [from |-> "p", to |-> "q"], [from |-> "p", to |-> null] }

RECURSIVE SumPts(_)
SumPts(seq) == IF seq = << >> THEN 0 ELSE Head(seq).pts + SumPts(Tail(seq))

\* The transport gives every connection an id of its own: ids are never used
\* twice.  At most n connections are accepted.
ConnectUpTo(n) ==
  /\ opened < n
  /\ \E r \in {onConnection(Cur, SocketIds[opened + 1])} : Becomes(r)

Connect == ConnectUpTo(NumSockets)

Join ==
  \E id \in conns : \E r \in {onJoin(Cur, id, JoinName(id))} : Becomes(r)

LeaveGame ==
  \E id \in conns : \E r \in {onLeaveGame(Cur, id)} : Becomes(r)

Disconnect ==
  \E id \in conns : \E r \in {onDisconnect(Cur, id)} : Becomes(r)

Stroke ==
  \E id \in conns, stroke \in StrokeInputs :
    \E r \in {onStroke(Cur, id, stroke)} : Becomes(r)

ClearBoard ==
  \E id \in conns : \E r \in {onClear(Cur, id)} : Becomes(r)

Chat ==
  \E id \in conns, from \in FromNames, text \in ChatTexts :
    \E r \in {onChat(Cur, id, from, text)} : Becomes(r)

\* The points on the board are capped at maxPoints.
GuessOf(froms, texts, maxPoints) ==
  \E id \in conns, from \in froms, text \in texts :
    \E r \in {onGuess(Cur, id, from, text)} :
      /\ SumPts(r.scores) <= maxPoints
      /\ Becomes(r)

Guess == GuessOf(FromNames, GuessTexts, MaxPoints)

Due(t) == t \in timers /\ t.left = 0

CountdownFires ==
  \E t \in timers, w \in Pool :
    /\ t.kind = "countdown" /\ Due(t)
    /\ \E r \in {countdownCallback(Cur, t, w)} : Becomes(r)

RoundTimerFires ==
  \E t \in timers :
    /\ t.kind = "round" /\ Due(t)
    /\ \E r \in {roundCallback(Cur, t)} : Becomes(r)

SessionTimerFires ==
  \E t \in timers :
    /\ t.kind = "session" /\ Due(t)
    /\ \E r \in {sessionCallback(Cur, t)} : Becomes(r)

IntermissionFires ==
  \E t \in timers, w \in Pool :
    /\ t.kind = "intermission" /\ Due(t)
    /\ \E r \in {intermissionCallback(Cur, t, w)} : Becomes(r)

ScoreResetFires ==
  \E t \in timers :
    /\ t.kind = "reset" /\ Due(t)
    /\ \E r \in {resetCallback(Cur, t)} : Becomes(r)

\* The 1000 ms interval of startNewRound fires several times per clock unit.
TickerFires ==
  \E t \in timers :
    /\ t.kind = "ticker"
    /\ \E r \in {tickerCallback(Cur, t)} : Becomes(r)

\* A ticker that finds no round clears itself within 1000 ms of the round's end.
StaleTicker(t) == t.kind = "ticker" /\ (~gameActive \/ currentWord = NoStr)

\* The clock advances by one unit.  Counted timers come one unit closer; each
\* far timer in D becomes due.
Tick ==
  /\ \E t \in timers : t.kind # "ticker"
  /\ \A t \in timers : (t.kind = "ticker" \/ t.left > 0) /\ ~StaleTicker(t)
  /\ \E D \in SUBSET {t \in timers : t.kind \in LongKinds} :
       Becomes([Cur EXCEPT !.timers =
                  {IF t.kind = "ticker" THEN t
                   ELSE IF t.kind \in LongKinds
                        THEN (IF t \in D THEN [t EXCEPT !.left = 0] ELSE t)
                        ELSE [t EXCEPT !.left = @ - 1] : t \in @}])

Next ==
  \/ Connect
  \/ Join
  \/ LeaveGame
  \/ Disconnect
  \/ Stroke
  \/ ClearBoard
  \/ Chat
  \/ Guess
  \/ CountdownFires
  \/ RoundTimerFires
  \/ SessionTimerFires
  \/ IntermissionFires
  \/ ScoreResetFires
  \/ TickerFires
  \/ Tick

Spec == Init /\ [][Next]_vars

\* One more connection, for rosters of three; the clients join, leave,
\* disconnect and guess wrong, and rounds end by timeout or departure.
ConnectTrio == ConnectUpTo(NumSockets + 1)

GuessTrio == GuessOf({NoStr}, {<<"x">>}, 0)

NextTrio ==
  \/ ConnectTrio
  \/ Join
  \/ LeaveGame
  \/ Disconnect
  \/ GuessTrio
  \/ CountdownFires
  \/ RoundTimerFires
  \/ SessionTimerFires
  \/ IntermissionFires
  \/ ScoreResetFires
  \/ TickerFires
  \/ Tick

SpecTrio == Init /\ [][NextTrio]_vars

----------------------------------------------------------------------------
(* What a step does: the functions it enters and the chat it emits *)

LogHas(r, fn) == \E i \in 1..Len(r.log) : r.log[i].fn = fn

EmitsChat(r, kind) ==
  \E i \in 1..Len(r.out) : r.out[i].ev = "chatMessage" /\ r.out[i].body.kind = kind

Pending(kind) == {t \in timers : t.kind = kind}

\* The steps the timers that are due can take in the current state.
RoundSteps == {roundCallback(Cur, t) : t \in {u \in Pending("round") : u.left = 0}}

IntermissionSteps ==
  {intermissionCallback(Cur, t, w) :
     t \in {u \in Pending("intermission") : u.left = 0}, w \in Pool}

CountdownSteps ==
  {countdownCallback(Cur, t, w) :
     t \in {u \in Pending("countdown") : u.left = 0}, w \in Pool}

----------------------------------------------------------------------------
(* Properties *)

\* C1: a round timeout ends only the round whose start scheduled it.  Every
\* pending round timer is the one roundTimer holds, scheduled by the start
\* of the round that is active; no round timer is pending once its round has
\* ended, so none fires then; and the timeout of the active round changes no
\* score.
C1_TimeoutOnlyOfActiveRound ==
  /\ \A t \in Pending("round") : t.h = roundTimer /\ currentWord # NoStr
  /\ Cardinality(Pending("round")) <= 1
  /\ \A r \in RoundSteps :
       /\ r.scores = scores
       /\ r.currentWord = NoStr
       /\ EmitsChat(r, "timesUp")

\* A round has ended by a correct guess in this session, and the timeout of a
\* later round is due.
C1_Witness ==
  /\ SumPts(scores) > 0
  /\ \E t \in Pending("round") : t.left = 0

\* C2: startNewRound never executes while a round is active (currentWord
\* non-null), whichever timer calls it.
C2_RoundStartsOnlyWithoutRound ==
  \A r \in IntermissionSteps \cup CountdownSteps :
    \A i \in 1..Len(r.log) : r.log[i].fn = "startNewRound" => ~r.log[i].hadWord

\* The intermission timer is about to start a round after a round that ended.
C2_Witness ==
  \E r \in IntermissionSteps : LogHas(r, "startNewRound") /\ r.currentWord # NoStr

\* C3 as stated: between rounds both the word and the drawer are none.
C3_DrawerNoneBetweenRounds == currentWord = NoStr => currentDrawer = null

\* C3 amended: a round's end clears the word but keeps the drawer: while the
\* session goes on, currentDrawer keeps the ended round's drawer until the
\* next round starts; it is none once the session has ended.
C3_DrawerKeptUntilNextRound ==
  [][currentWord' = NoStr =>
       IF gameActive /\ gameActive'
       THEN currentDrawer' = currentDrawer
       ELSE currentDrawer' = null]_vars

\* An intermission in which the ended round's drawer is still the drawer.
C3_Witness ==
  /\ gameActive /\ currentWord = NoStr /\ Pending("intermission") # {}
  /\ HasUser(Cur, currentDrawer)

\* The state a step leaves is the state it found.
SameState(r) == [r EXCEPT !.out = << >>, !.log = << >>] = Cur

\* The guesses participants other than the drawer can send in the current state.
GuessSteps ==
  {[id |-> id, from |-> from, r |-> onGuess(Cur, id, from, text)] :
     id \in {c \in conns : HasUser(Cur, c) /\ c # currentDrawer},
     from \in FromNames, text \in GuessTexts}

\* Every entry of the board but those of the names in ns is as it was.
OthersKeep(r, ns) ==
  \A i \in 1..Len(r.scores) :
    r.scores[i].name \notin ns => r.scores[i].pts = ScoreOf(Cur, r.scores[i].name)

\* C4: a guess that ends the round adds exactly 10 to the entry of the
\* participant who sent it and exactly 5 to the drawer's entry, and changes
\* no other entry; a guess that does not end the round changes no entry.
C4_GuesserTenDrawerFive ==
  \A g \in GuessSteps :
    IF currentWord # NoStr /\ g.r.currentWord = NoStr
    THEN /\ ScoreOf(g.r, NameOf(Cur, g.id)) = ScoreOf(Cur, NameOf(Cur, g.id)) + GUESS_POINTS
         /\ ScoreOf(g.r, NameOf(Cur, currentDrawer))
              = ScoreOf(Cur, NameOf(Cur, currentDrawer)) + DRAWER_POINTS
         /\ OthersKeep(g.r, {NameOf(Cur, g.id), NameOf(Cur, currentDrawer)})
    ELSE g.r.scores = scores

\* The guesses the connection that is the current drawer can send.
DrawerGuessSteps ==
  {onGuess(Cur, id, from, text) :
     id \in {c \in conns : c = currentDrawer}, from \in FromNames, text \in GuessTexts}

\* C5: a guess sent by the current drawer changes no score and ends no round,
\* even when its text equals the word: the step leaves the state as it found
\* it and emits at most one message, the chat message of the sender.
C5_DrawerGuessIsChat ==
  \A r \in DrawerGuessSteps :
    /\ SameState(r)
    /\ Len(r.out) <= 1
    /\ \A i \in 1..Len(r.out) :
         r.out[i].ev = "chatMessage" /\ r.out[i].body.kind = "user"

\* The drawer of an active round is connected and can send the word as a guess.
C5_Witness ==
  /\ gameActive /\ currentWord # NoStr /\ currentDrawer \in conns
  /\ \E text \in GuessTexts : ToLowerCase(Trim(text)) = ToLowerCase(currentWord)
  /\ \E r \in DrawerGuessSteps : Len(r.out) = 1

\* The participant after id in ids, the first one after the last.
SuccessorOf(ids, id) ==
  LET i == CHOOSE k \in 1..Len(ids) : ids[k] = id
  IN IF i = Len(ids) THEN ids[1] ELSE ids[i + 1]

\* The drawer of the active round departs, by disconnect or by leaveGame, and
\* the intermission timer the departure schedules fires next: the steps'
\* final states.
DrawerDepartureSteps ==
  IF gameActive /\ currentWord # NoStr /\ currentDrawer \in conns
     /\ HasUser(Cur, currentDrawer) /\ Len(users) >= 2
  THEN UNION {{intermissionCallback(d, t, w) :
                 t \in {u \in d.timers : u.kind = "intermission"}, w \in Pool} :
              d \in {[e EXCEPT !.out = << >>, !.log = << >>] :
                       e \in {f \in {onDisconnect(Cur, currentDrawer),
                                     onLeaveGame(Cur, currentDrawer)} : f.gameActive}}}
  ELSE {}

C7_RotationInInsertionOrder ==
  /\ \A r \in IntermissionSteps :
       (gameActive /\ HasUser(Cur, currentDrawer))
         => /\ r.currentWord # NoStr
            /\ r.currentDrawer = SuccessorOf(Keys(Cur), currentDrawer)
            /\ Keys(r) = Keys(Cur)
  /\ \A r \in CountdownSteps :
       (LogHas(r, "startSession") /\ users # << >>)
         => r.currentWord # NoStr /\ r.currentDrawer = Keys(Cur)[1]

\* The intermission timer is due after a round drawn by the last of a roster
\* of three.
C7_Witness ==
  /\ gameActive /\ Len(users) = 3 /\ Keys(Cur)[3] = currentDrawer
  /\ IntermissionSteps # {}

\* The joins connections can send in the current state.
JoinSteps == {onJoin(Cur, id, JoinName(id)) : id \in conns}

Idle == ~gameActive /\ ~sessionStartTime /\ countdownTimer = 0

\* The step has scheduled a countdown.
StartsCountdown(r) ==
  /\ LogHas(r, "startCountdown")
  /\ r.countdownTimer # 0
  /\ \E t \in r.timers \ timers : t.kind = "countdown" /\ t.h = r.countdownTimer

\* C8 as stated: a join that leaves two or more participants while no session
\* is active and no countdown is running starts a countdown; no join starts
\* one while a session is active or a countdown is running.
C8_CountdownForTwoOrMore ==
  \A r \in JoinSteps :
    /\ (Len(r.users) >= MIN_PLAYERS_TO_START /\ Idle) => StartsCountdown(r)
    /\ (gameActive \/ countdownTimer # 0) => ~LogHas(r, "startCountdown")

\* C8 amended: a join starts a countdown exactly when it leaves the roster
\* with exactly two participants while no session is active and no countdown
\* is running; a join that leaves three or more starts none.
C8_CountdownForExactlyTwo ==
  \A r \in JoinSteps :
    /\ StartsCountdown(r) <=> (Len(r.users) = MIN_PLAYERS_TO_START /\ Idle)
    /\ LogHas(r, "startCountdown") => StartsCountdown(r)
    /\ ~LogHas(r, "startCountdown") => r.timers = timers /\ r.countdownTimer = countdownTimer

\* No session and no countdown, two participants, and a connection that has
\* not joined yet.
C8_Witness ==
  /\ Idle /\ Len(users) = 2
  /\ \E id \in conns : ~HasUser(Cur, id)

\* C9: when every participant has gone during a countdown, the countdown is
\* cancelled, and startSession is never entered with an empty roster.
C9_NoSessionForEmptyRoster ==
  /\ users = << >> => Pending("countdown") = {}
  /\ \A r \in CountdownSteps :
       \A i \in 1..Len(r.log) : r.log[i].fn = "startSession" => r.log[i].players >= 1

\* C10: no round starts while the roster holds fewer than two participants,
\* and the intermission timer enters startNewRound only with two or more.
C10_NoRoundBelowMinimum ==
  \A r \in IntermissionSteps \cup CountdownSteps :
    /\ (currentWord = NoStr /\ r.currentWord # NoStr)
         => Len(r.users) >= MIN_PLAYERS_TO_START
    /\ \A i \in 1..Len(r.log) :
         r.log[i].fn = "startNewRound" => r.log[i].players >= MIN_PLAYERS_TO_START

\* The step emits the notification ev.
Emits(r, ev) == \E i \in 1..Len(r.out) : r.out[i].ev = ev

SessionSteps == {sessionCallback(Cur, t) : t \in {u \in Pending("session") : u.left = 0}}

\* C11: a step that ends a round with fewer than two participants left in
\* the roster ends the session too, and schedules no further round.
C11_SessionEndsBelowMinimum ==
  [][(currentWord # NoStr /\ currentWord' = NoStr
        /\ Len(users') < MIN_PLAYERS_TO_START)
       => ~gameActive' /\ Pending("intermission")' \subseteq Pending("intermission")]_vars

\* C12: once endSession has run, no timer scheduled during the session is
\* pending, and no timer that fires while no session is active enters
\* endSession or emits sessionEnded again.
C12_SessionEndsOnce ==
  /\ ~gameActive => \A t \in timers : t.kind \notin {"round", "session", "intermission"}
  /\ ~gameActive =>
       \A r \in IntermissionSteps \cup RoundSteps \cup SessionSteps :
         ~LogHas(r, "endSession") /\ ~Emits(r, "sessionEnded")

\* C13: every display name in the roster has an entry in the score board.
C13_RosterNamesHaveScores ==
  \A i \in 1..Len(users) : HasScore(Cur, users[i].name)

\* Every entry of the board is in the board b with at least as many points.
KeptIn(b) ==
  \A i \in 1..Len(scores) :
    /\ HasScore([scores |-> b], scores[i].name)
    /\ ScoreOf([scores |-> b], scores[i].name) >= scores[i].pts

\* C14: while a session is active no step removes or lowers an entry of the
\* score board and no score reset is pending; a join under a name that has an
\* entry, the name of a participant who has gone included, keeps every entry.
C14_ScoresKeptDuringSession ==
  /\ [][gameActive => KeptIn(scores')]_vars
  /\ [](gameActive => Pending("reset") = {})
  /\ [](\A id \in conns : \A i \in 1..Len(scores) :
          \E r \in {onJoin(Cur, id, scores[i].name)} :
            KeptIn(r.scores) /\ Len(r.scores) = Len(scores))

\* A session is active, a participant with points has gone from the roster,
\* and a connection can join under that name.
C14_Witness ==
  /\ gameActive /\ conns # {}
  /\ \E i \in 1..Len(scores) :
       /\ scores[i].pts > 0
       /\ \A j \in 1..Len(users) : users[j].name # scores[i].name

----------------------------------------------------------------------------
(* Progress.  The runtime fires every timer that is due, and the clock      *)
(* reaches the deadline of every pending timer: SESSION_DURATION after      *)
(* startSession the session timeout is due, whatever happens meanwhile.     *)

\* A clock step that makes the session timeout due.
SessionComesDue ==
  /\ Tick
  /\ \A t \in timers' : t.kind = "session" => t.left = 0

Fairness ==
  /\ WF_vars(CountdownFires)
  /\ WF_vars(RoundTimerFires)
  /\ WF_vars(SessionTimerFires)
  /\ WF_vars(IntermissionFires)
  /\ WF_vars(ScoreResetFires)
  /\ WF_vars(TickerFires)
  /\ SF_vars(SessionComesDue)

SpecFair == Init /\ [][Next]_vars /\ Fairness

\* No session: the state endSession leaves.
SessionOver ==
  /\ ~gameActive /\ currentDrawer = null /\ currentWord = NoStr
  /\ roundTimer = 0 /\ sessionTimer = 0 /\ sessionStartTime = FALSE
  /\ Pending("round") = {} /\ Pending("session") = {}

\* C15: every session that starts ends: from every state with a session
\* active a state is reached with no session, no drawer, no word and no
\* round or session timeout, whatever the clients do meanwhile.
C15_SessionEnds == gameActive ~> SessionOver

\* A session in which points were scored has ended.
C15_Witness ==
  /\ SessionOver /\ Pending("reset") # {}
  /\ SumPts(scores) > 0

----------------------------------------------------------------------------
(* The leaderboard *)

\* Score boards of up to MaxBoard entries with distinct names.
BoardNames == {<<"A">>, <<"B">>, <<"P">>}
BoardPoints == {0, DRAWER_POINTS, GUESS_POINTS}
Boards ==
  {b \in UNION {[1..n -> [name : BoardNames, pts : BoardPoints]] : n \in 0..MaxBoard} :
     \A i, j \in 1..Len(b) : b[i].name = b[j].name => i = j}

\* body is the sessionEnded notification for the board b.
Ranked(b, body) ==
  IF b = << >>
  THEN body.winner = NoStr /\ body.leaderboard = << >>
  ELSE /\ Len(body.leaderboard) = Len(b)
       /\ \A i \in 1..Len(b) : \E j \in 1..Len(b) : body.leaderboard[j] = b[i]
       /\ \A k \in 1..(Len(b) - 1) :
            body.leaderboard[k].pts >= body.leaderboard[k + 1].pts
       /\ \E i \in 1..Len(b) :
            /\ b[i].name = body.winner
            /\ \A j \in 1..Len(b) : b[j].pts <= b[i].pts

\* The steps that can end the session in the current state.
EndingSteps ==
  SessionSteps \cup IntermissionSteps \cup RoundSteps
    \cup {onDisconnect(Cur, id) : id \in conns}
    \cup {onLeaveGame(Cur, id) : id \in conns}
    \cup {onGuess(Cur, id, from, text) :
            id \in conns, from \in FromNames, text \in GuessTexts}

\* C16: every sessionEnded notification carries all entries of the score
\* board in order of non-increasing points and names a winner with the most
\* points; for the empty board the winner is none and the leaderboard empty.
\* This holds for the board of every step that ends the session, and for
\* endSession run on every board of up to MaxBoard entries.
C16_LeaderboardRanked ==
  /\ \A r \in EndingSteps :
       \A i \in 1..Len(r.out) :
         r.out[i].ev = "sessionEnded" => Ranked(r.scores, r.out[i].body)
  /\ gameActive =>
       \A b \in Boards :
         \E r \in {endSession([Cur EXCEPT !.scores = b])} :
           /\ Cardinality({i \in 1..Len(r.out) : r.out[i].ev = "sessionEnded"}) = 1
           /\ \A i \in 1..Len(r.out) :
                r.out[i].ev = "sessionEnded" => Ranked(b, r.out[i].body)

\* The session timeout is due and the second entry of the board has more
\* points than the first.
C16_Witness ==
  /\ SessionSteps # {}
  /\ Len(scores) = 2 /\ scores[1].pts < scores[2].pts

----------------------------------------------------------------------------
(* The secret word *)

\* The notifications of a step but yourWord.
Public(r) == SelectSeq(r.out, LAMBDA o : o.ev # "yourWord")

\* The current state with another word picked for the round.
WithWord(w) == [Cur EXCEPT !.currentWord = w]

\* C17: yourWord goes to the drawer alone, once per round start, and no other
\* notification of the controller depends on the word that was picked: the
\* steps that start a round emit the same other notifications for every word
\* of the pool, and so do the steps taken while the round is active that do
\* not compare a text with the word (gameState interval, connection, join,
\* chat, stroke, clear).
C17_WordOnlyToDrawer ==
  /\ \A r \in IntermissionSteps \cup CountdownSteps :
       /\ \A i \in 1..Len(r.out) :
            r.out[i].ev = "yourWord"
              => /\ r.currentDrawer # null
                 /\ r.out[i].to = ToOnly(r.currentDrawer)
                 /\ r.out[i].body.word = r.currentWord
       /\ r.currentWord # NoStr
            => Cardinality({i \in 1..Len(r.out) : r.out[i].ev = "yourWord"}) = 1
  /\ \A w1, w2 \in Pool :
       /\ \A t \in {u \in Pending("intermission") : u.left = 0} :
            Public(intermissionCallback(Cur, t, w1)) = Public(intermissionCallback(Cur, t, w2))
       /\ \A t \in {u \in Pending("countdown") : u.left = 0} :
            Public(countdownCallback(Cur, t, w1)) = Public(countdownCallback(Cur, t, w2))
  /\ currentWord # NoStr =>
       \A w \in Pool :
         /\ \A t \in Pending("ticker") :
              tickerCallback(WithWord(w), t).out = tickerCallback(Cur, t).out
         /\ onConnection(WithWord(w), SocketIds[opened + 1]).out
              = onConnection(Cur, SocketIds[opened + 1]).out
         /\ \A id \in conns :
              /\ onJoin(WithWord(w), id, JoinName(id)).out = onJoin(Cur, id, JoinName(id)).out
              /\ onClear(WithWord(w), id).out = onClear(Cur, id).out
              /\ \A stroke \in StrokeInputs :
                   onStroke(WithWord(w), id, stroke).out = onStroke(Cur, id, stroke).out
              /\ \A from \in FromNames, text \in ChatTexts :
                   onChat(WithWord(w), id, from, text).out = onChat(Cur, id, from, text).out

\* The intermission timeout is due and starts a round for a roster of two.
C17_Witness ==
  /\ Len(users) = 2
  /\ \E r \in IntermissionSteps : r.currentWord # NoStr /\ Emits(r, "yourWord")

----------------------------------------------------------------------------
(* Events that are dropped, and the comparison of a guess with the word *)

\* C18: a stroke or a clear from a connection that is not the current drawer
\* emits nothing and leaves the state as it is, in every reachable state.
C18_NonDrawerCannotDraw ==
  \A id \in conns :
    id # currentDrawer =>
      /\ \A stroke \in StrokeInputs :
           \E r \in {onStroke(Cur, id, stroke)} : SameState(r) /\ r.out = << >>
      /\ \E r \in {onClear(Cur, id)} : SameState(r) /\ r.out = << >>

\* A round is active and a participant who is not the drawer is connected.
C18_Witness ==
  /\ gameActive /\ currentWord # NoStr
  /\ \E id \in conns : id # currentDrawer /\ HasUser(Cur, id)

\* Texts that are empty or only whitespace.
BlankTexts == {NoStr, <<" ">>, <<"\t", " ">>}

\* C19: a guess or a chat whose text is empty or only whitespace emits
\* nothing and leaves the state as it is.
C19_BlankTextDropped ==
  \A id \in conns, from \in FromNames, text \in BlankTexts :
    /\ \E r \in {onGuess(Cur, id, from, text)} : SameState(r) /\ r.out = << >>
    /\ \E r \in {onChat(Cur, id, from, text)} : SameState(r) /\ r.out = << >>

\* The same letter in either case, or the same character.
SameLetter(c, d) ==
  c = d \/ \E i \in 1..Len(UpperAlpha) : {c, d} \subseteq {UpperAlpha[i], LowerAlpha[i]}

\* text is word in any case of letters between leading and trailing whitespace.
Matches(text, word) ==
  \E a \in 0..Len(text) :
    /\ a + Len(word) <= Len(text)
    /\ \A i \in 1..a : text[i] \in WhiteSpace
    /\ \A i \in (a + Len(word) + 1)..Len(text) : text[i] \in WhiteSpace
    /\ \A k \in 1..Len(word) : SameLetter(text[a + k], word[k])

\* Texts near the word w: w in other cases and paddings, and texts that differ
\* from it by a character.
NearTexts(w) ==
  { w, Padded(w), [i \in 1..Len(w) |-> UpperChar(w[i])],
    <<"\t">> \o w \o <<"\n", " ">>,
    Tail(w), w \o <<"s">>, <<Head(w), " ">> \o Tail(w), <<"x">>, <<" ">> }

\* C20: in an active round, a guess from a connection that is not the drawer
\* ends the round exactly when its text is the word between leading and
\* trailing whitespace, in any case of letters.
C20_GuessMatchesTrimmedAnyCase ==
  (gameActive /\ currentWord # NoStr) =>
    \A id \in conns : id # currentDrawer =>
      \A from \in FromNames, text \in UNION {NearTexts(w) : w \in Pool} :
        \E r \in {onGuess(Cur, id, from, text)} :
          /\ (r.currentWord = NoStr /\ LogHas(r, "endRound")) <=> Matches(text, currentWord)
          /\ ~Matches(text, currentWord) => r.scores = scores /\ r.timers = timers

\* A round is active and a connection that is not the drawer can guess.
C20_Witness ==
  /\ gameActive /\ currentWord # NoStr /\ roundTimer # 0
  /\ \E id \in conns : id # currentDrawer

----------------------------------------------------------------------------
(* Rounds that end without a guess, and the round after *)

\* The departures of the drawer of the active round.
DrawerLeavesSteps ==
  IF gameActive /\ currentWord # NoStr /\ currentDrawer \in conns
  THEN {onDisconnect(Cur, currentDrawer), onLeaveGame(Cur, currentDrawer)}
  ELSE {}

\* C21: the step that ends a round by timeout, and the step that ends it
\* because the drawer disconnects or leaves, leave the score board as it is.
C21_NoGuessNoPoints ==
  \A r \in RoundSteps \cup DrawerLeavesSteps :
    (currentWord # NoStr /\ r.currentWord = NoStr) => r.scores = scores

\* The round timeout is due in a round whose drawer, still connected, has
\* points from an earlier round.
C21_Witness ==
  /\ RoundSteps # {} /\ DrawerLeavesSteps # {}
  /\ ScoreOf(Cur, NameOf(Cur, currentDrawer)) > 0

\* The session goes on between two rounds: the last round's drawer is kept.
Intermission == gameActive /\ currentWord = NoStr /\ currentDrawer # null

\* C22: between two rounds of a session exactly one intermission timeout is
\* pending, it starts at most one round, and it leads to the next round
\* unless the session ends first.
C22_NextRoundStarts ==
  /\ [](Intermission => Cardinality(Pending("intermission")) = 1)
  /\ [](\A r \in IntermissionSteps :
          /\ Cardinality({i \in 1..Len(r.log) : r.log[i].fn = "startNewRound"}) <= 1
          /\ Pending("intermission") \cap r.timers = {}
          /\ (gameActive /\ Len(users) >= MIN_PLAYERS_TO_START) => r.currentWord # NoStr)
  /\ Intermission ~> (currentWord # NoStr \/ ~gameActive)

\* Between two rounds, after a round that ended by a correct guess, with two
\* participants in the roster.
C22_Witness ==
  /\ Intermission /\ Len(users) = 2 /\ SumPts(scores) > 0
  /\ Pending("intermission") # {}

----------------------------------------------------------------------------
(* The drawer and the active round *)

\* C25: getNextDrawer returns an id of the roster when the roster is not
\* empty and none when it is empty, in every reachable state and whatever id
\* currentDrawer holds (none, a participant, a departed or unknown socket).
C25_NextDrawerInRoster ==
  \A c \in {currentDrawer, null} \cup {SocketIds[i] : i \in 1..Len(SocketIds)} :
    \E d \in {getNextDrawer([Cur EXCEPT !.currentDrawer = c])} :
      IF users = << >> THEN d = null ELSE d # null /\ HasUser(Cur, d)

\* The drawer has gone from a roster that two participants are left in.
C25_Witness ==
  /\ currentDrawer # null /\ ~HasUser(Cur, currentDrawer)
  /\ Len(users) = 2

\* C26: while a round is active its word is a word of the pool, its drawer
\* is in the roster, the session is active and exactly the round timeout that
\* roundTimer holds is pending; a round start with an empty roster leaves no
\* round and schedules no round timeout.
C26_ActiveRoundWellFormed ==
  /\ currentWord # NoStr =>
       /\ \E i \in 1..Len(wordList) : wordList[i] = currentWord
       /\ HasUser(Cur, currentDrawer)
       /\ gameActive
       /\ roundTimer # 0
       /\ \E t \in Pending("round") : t.h = roundTimer
  /\ users = << >> =>
       \A r \in IntermissionSteps \cup CountdownSteps :
         /\ r.currentWord = NoStr /\ r.currentDrawer = null
         /\ r.roundTimer = 0 /\ \A t \in r.timers : t.kind # "round"

\* A round is active with three participants, the drawer not the first.
C26_Witness ==
  /\ currentWord # NoStr /\ Len(users) = 3
  /\ Keys(Cur)[1] # currentDrawer

\* C27: the "Time's up!" chat message is sent only by a step that runs a
\* round's timeout, and the departure of the active round's drawer is
\* announced as the drawer having gone, without "Time's up!".
C27_TimesUpOnlyOnTimeout ==
  /\ \A r \in DrawerLeavesSteps :
       /\ EmitsChat(r, "drawerLeft") \/ EmitsChat(r, "drawerDisconnected")
       /\ ~EmitsChat(r, "timesUp")
  /\ \A r \in JoinSteps \cup {g.r : g \in GuessSteps} \cup IntermissionSteps
              \cup CountdownSteps \cup SessionSteps :
       ~EmitsChat(r, "timesUp")

\* C28: while the session is active a round is active or an intermission
\* timeout is pending; no state has an active session, participants in the
\* roster, no round and no round start scheduled.
C28_SessionNeverStalls ==
  gameActive => currentWord # NoStr \/ Pending("intermission") # {}

\* The guesses of every open connection but the drawer's, joined or not.
AnyGuessSteps ==
  {[id |-> id, from |-> from, r |-> onGuess(Cur, id, from, text)] :
     id \in conns \ {currentDrawer}, from \in FromNames, text \in GuessTexts}

\* C29: a guess that ends the round adds 10 to the entry of the name the
\* roster holds for the connection that sent it, whatever from the payload
\* carries, adds 5 to the drawer's entry, and changes the entry of no other
\* participant, whether the sender has joined or not.
C29_PointsGoToSender ==
  \A g \in AnyGuessSteps :
    (currentWord # NoStr /\ g.r.currentWord = NoStr) =>
      /\ HasUser(Cur, g.id) =>
           ScoreOf(g.r, NameOf(Cur, g.id)) = ScoreOf(Cur, NameOf(Cur, g.id)) + GUESS_POINTS
      /\ \A i \in 1..Len(users) :
           users[i].id # g.id =>
             ScoreOf(g.r, users[i].name)
               = ScoreOf(Cur, users[i].name)
                   + (IF users[i].id = currentDrawer THEN DRAWER_POINTS ELSE 0)

\* C30: gameActive holds exactly when sessionStartTime is set and exactly
\* when the session timeout that sessionTimer holds is pending, and no
\* countdown is running while the session is active.
C30_SessionFlagsAgree ==
  /\ gameActive <=> sessionStartTime
  /\ gameActive <=> sessionTimer # 0
  /\ gameActive <=> Pending("session") # {}
  /\ \A t \in Pending("session") : t.h = sessionTimer
  /\ Cardinality(Pending("session")) <= 1
  /\ gameActive => countdownTimer = 0 /\ Pending("countdown") = {}

\* The session is active and about to end, with points on the board.
C30_Witness ==
  /\ gameActive /\ sessionStartTime /\ SumPts(scores) > 0
  /\ \E t \in Pending("session") : t.left = 0

----------------------------------------------------------------------------
(* The variant with startGame and stopGame (the first server of part_001). *)
(* It has no session, no countdown and no leaveGame; gameActive is set     *)
(* while a round is active.  Its helper functions and its connection,      *)
(* stroke, clear and chat handlers have the text of the session variant's. *)
(* Its counted delays are in units of 1000 ms.                             *)

START_DELAY == 2
NEXT_ROUND_DELAY == 5

\* A startGame is sent while fewer than MaxPendingStarts round starts are
\* scheduled, and the board holds at most MaxPointsManual points.
MaxPendingStarts == 2
MaxPointsManual == 15

\* A round start leaves at most MaxTickers intervals of startNewRound running.
MaxTickers == 2

FewTickers(r) == Cardinality({t \in r.timers : t.kind = "ticker"}) <= MaxTickers

startNewRoundManual(s, w) ==
  With(Enter(s, "startNewRound", null), LAMBDA e :
  With([e EXCEPT !.currentDrawer = getNextDrawer(e)], LAMBDA s1 :
  IF s1.currentDrawer = null THEN [s1 EXCEPT !.gameActive = FALSE]
  ELSE
  With([s1 EXCEPT !.currentWord = w, !.gameActive = TRUE,
                  !.roundStartTime = TRUE, !.roundEndTime = TRUE], LAMBDA s2 :
  With(Emit(s2, "clearBoard", ToAll, << >>), LAMBDA s3 :
  With(SysChat(s3, ToAll, "nowDrawing", NameOf(s3, s3.currentDrawer)), LAMBDA s4 :
  With(Emit(s4, "yourWord", ToOnly(s4.currentDrawer), [word |-> s4.currentWord]),
    LAMBDA s5 :
  With(broadcastGameState(s5), LAMBDA s6 :
  With(IF s6.roundTimer # 0 THEN clearTimer(s6, "round", s6.roundTimer) ELSE s6,
    LAMBDA s7 :
  With([setTimer(s7, "round", 1, 0) EXCEPT !.roundTimer = NewHandle(s7, "round")],
    LAMBDA s8 :
  setTimer(s8, "ticker", 0, 0))))))))))

endRoundManual(s, someoneGuessed) ==
  With(Enter(s, "endRound", null), LAMBDA e :
  With(IF e.roundTimer # 0
       THEN [clearTimer(e, "round", e.roundTimer) EXCEPT !.roundTimer = 0]
       ELSE e, LAMBDA s1 :
  IF ~s1.gameActive THEN s1
  ELSE
  With([s1 EXCEPT !.gameActive = FALSE, !.roundStartTime = FALSE,
                  !.roundEndTime = FALSE], LAMBDA s2 :
  With(SysChat(s2, ToAll, IF someoneGuessed THEN "roundEnded" ELSE "timesUp",
               s2.currentWord), LAMBDA s3 :
  With(broadcastGameState([s3 EXCEPT !.currentWord = NoStr]), LAMBDA s4 :
  setTimer(s4, "intermission", NEXT_ROUND_DELAY, 0))))))

stopGame(s) ==
  With(Enter(s, "stopGame", null), LAMBDA e :
  With(IF e.roundTimer # 0
       THEN [clearTimer(e, "round", e.roundTimer) EXCEPT !.roundTimer = 0]
       ELSE e, LAMBDA s1 :
  With([s1 EXCEPT !.gameActive = FALSE, !.currentDrawer = null,
                  !.currentWord = NoStr, !.roundStartTime = FALSE,
                  !.roundEndTime = FALSE], LAMBDA s2 :
  With(SysChat(s2, ToAll, "stopped", << >>), LAMBDA s3 :
  With(Emit(s3, "clearBoard", ToAll, << >>), LAMBDA s4 :
  broadcastGameState(s4))))))

\* The timeout of startNewRound
roundCallbackManual(s, t) ==
  With(Enter(Fired(s, t), "roundCallback", null), LAMBDA e : endRoundManual(e, FALSE))

\* The timeout of endRound
intermissionCallbackManual(s, t, w) ==
  With(Enter(Fired(s, t), "intermissionCallback", null), LAMBDA e :
  IF Len(Keys(e)) >= 1 THEN startNewRoundManual(e, w) ELSE e)

\* The timeout of the startGame handler
delayedStartCallback(s, t, w) ==
  With(Enter(Fired(s, t), "delayedStartCallback", null), LAMBDA e :
  startNewRoundManual(e, w))

\* The interval of startNewRound
tickerCallbackManual(s, t) ==
  With(Enter(s, "tickerCallback", null), LAMBDA e :
  IF ~e.gameActive THEN clearTimer(e, "ticker", t.h) ELSE broadcastGameState(e))

onJoinManual(s, id, name) ==
  With(Enter(s, "join", id), LAMBDA e :
  With(IF Trim(name) # NoStr THEN Trim(name) ELSE FallbackName(id), LAMBDA n :
  With(SetUser(e, id, n), LAMBDA s1 :
  With(IF ScoreOf(s1, n) = 0 THEN SetScore(s1, n, 0) ELSE s1, LAMBDA s2 :
  With(broadcastUserList(s2), LAMBDA s2a :
  With(broadcastScores(s2a), LAMBDA s3 :
  With(SysChat(s3, ToOnly(id), "welcome", n), LAMBDA s4 :
  SysChat(s4, ToOthers(id), "joined", n))))))))

onStartGame(s, id) ==
  With(Enter(s, "startGame", id), LAMBDA e :
  With(IF NameOf(e, id) # NoStr THEN NameOf(e, id) ELSE <<"Unknown">>,
    LAMBDA playerName :
  IF e.gameActive THEN SysChat(e, ToOnly(id), "alreadyRunning", << >>)
  ELSE IF Len(Keys(e)) < 1 THEN SysChat(e, ToOnly(id), "needPlayer", << >>)
  ELSE With(SysChat(e, ToAll, "started", playerName), LAMBDA s1 :
       setTimer(s1, "delayedStart", START_DELAY, 0))))

onStopGame(s, id) ==
  With(Enter(s, "stopGame handler", id), LAMBDA e :
  IF ~e.gameActive THEN SysChat(e, ToOnly(id), "notRunning", << >>)
  ELSE stopGame(e))

AwardManual(s, player) ==
  With(SetScore(s, player, ScoreOf(s, player) + GUESS_POINTS), LAMBDA s2 :
  With(NameOf(s2, s2.currentDrawer), LAMBDA drawerName :
  With(IF drawerName # NoStr
       THEN SetScore(s2, drawerName, ScoreOf(s2, drawerName) + DRAWER_POINTS)
       ELSE s2, LAMBDA s3 :
  With(SysChat(s3, ToAll, "guessedCorrectly", <<player, drawerName>>), LAMBDA s4 :
  With(broadcastScores(s4), LAMBDA s5 :
  endRoundManual(s5, TRUE))))))

onGuessManual(s, id, from, text) ==
  With(Enter(s, "guess", id), LAMBDA e :
  With(Trim(text), LAMBDA guessText :
  With(PlayerOf(e, id, from), LAMBDA player :
  IF guessText = NoStr THEN e
  ELSE With(UserChat(e, player, guessText), LAMBDA s1 :
       IF id = s1.currentDrawer THEN s1
       ELSE IF ~s1.gameActive \/ s1.currentWord = NoStr THEN s1
       ELSE IF ToLowerCase(guessText) = ToLowerCase(s1.currentWord)
            THEN AwardManual(s1, player)
            ELSE s1))))

onDisconnectManual(s, id) ==
  With(Enter([s EXCEPT !.conns = @ \ {id}], "disconnect", id), LAMBDA e :
  With(NameOf(e, id), LAMBDA name :
  IF name = NoStr THEN e
  ELSE
  With(IF id = e.currentDrawer
       THEN With(SysChat(e, ToAll, "drawerLeft", name),
              LAMBDA s0 : endRoundManual(s0, FALSE))
       ELSE SysChat(e, ToAll, "left", name), LAMBDA s1 :
  With(DeleteUser(s1, id), LAMBDA s1a :
  With(broadcastUserList(s1a), LAMBDA s2 :
  IF Len(Keys(s2)) < 1 /\ s2.gameActive THEN stopGame(s2) ELSE s2)))))

JoinManual ==
  \E id \in conns : \E r \in {onJoinManual(Cur, id, JoinName(id))} : Becomes(r)

StartGame ==
  \E id \in conns :
    \E r \in {onStartGame(Cur, id)} :
      /\ Cardinality({t \in r.timers : t.kind \in {"delayedStart", "intermission"}})
           <= MaxPendingStarts
      /\ Becomes(r)

StopGame ==
  \E id \in conns : \E r \in {onStopGame(Cur, id)} : Becomes(r)

GuessManual ==
  \E id \in conns, from \in FromNames, text \in GuessTexts :
    \E r \in {onGuessManual(Cur, id, from, text)} :
      /\ SumPts(r.scores) <= MaxPointsManual
      /\ Becomes(r)

DisconnectManual ==
  \E id \in conns : \E r \in {onDisconnectManual(Cur, id)} : Becomes(r)

RoundTimerFiresManual ==
  \E t \in timers :
    /\ t.kind = "round" /\ Due(t)
    /\ \E r \in {roundCallbackManual(Cur, t)} : Becomes(r)

IntermissionFiresManual ==
  \E t \in timers, w \in Pool :
    /\ t.kind = "intermission" /\ Due(t)
    /\ \E r \in {intermissionCallbackManual(Cur, t, w)} : FewTickers(r) /\ Becomes(r)

DelayedStartFires ==
  \E t \in timers, w \in Pool :
    /\ t.kind = "delayedStart" /\ Due(t)
    /\ \E r \in {delayedStartCallback(Cur, t, w)} : FewTickers(r) /\ Becomes(r)

TickerFiresManual ==
  \E t \in timers :
    /\ t.kind = "ticker"
    /\ \E r \in {tickerCallbackManual(Cur, t)} : Becomes(r)

NextManual ==
  \/ Connect
  \/ JoinManual
  \/ StartGame
  \/ StopGame
  \/ DisconnectManual
  \/ Stroke
  \/ ClearBoard
  \/ Chat
  \/ GuessManual
  \/ RoundTimerFiresManual
  \/ IntermissionFiresManual
  \/ DelayedStartFires
  \/ TickerFiresManual
  \/ Tick

SpecManual == Init /\ [][NextManual]_vars

----------------------------------------------------------------------------
(* Stopping and starting by hand *)

\* The stopGame requests the handler accepts in the current state.
StopSteps == IF gameActive THEN {onStopGame(Cur, id) : id \in conns} ELSE {}

\* What the timers pending in state s do when they fire with nothing else
\* happening before.
PendingTimerSteps(s) ==
  {roundCallbackManual(s, t) : t \in {u \in s.timers : u.kind = "round"}}
    \cup {intermissionCallbackManual(s, t, w) :
            t \in {u \in s.timers : u.kind = "intermission"}, w \in Pool}
    \cup {delayedStartCallback(s, t, w) :
            t \in {u \in s.timers : u.kind = "delayedStart"}, w \in Pool}

\* C23: an accepted stopGame leaves no round active and drawer and word
\* none, and no timer that is pending after it starts or ends a round when
\* it fires.
C23_StopCancelsEverything ==
  \A r \in StopSteps :
    /\ ~r.gameActive /\ r.currentDrawer = null /\ r.currentWord = NoStr
    /\ \A q \in PendingTimerSteps(r) :
         /\ ~q.gameActive /\ q.currentDrawer = null /\ q.currentWord = NoStr
         /\ ~LogHas(q, "startNewRound") /\ ~EmitsChat(q, "timesUp")

\* A game has been started: a round is active or a round start is scheduled.
AlreadyStarted ==
  gameActive \/ Pending("intermission") # {} \/ Pending("delayedStart") # {}

\* The step changes nothing and sends one chat message, to the requester.
Refused(r, id) ==
  /\ SameState(r)
  /\ Len(r.out) = 1
  /\ r.out[1].ev = "chatMessage" /\ r.out[1].to = ToOnly(id)

\* C24: a startGame received while a game has been started, and a stopGame
\* received while none has, change no state, schedule no timer and send one
\* chat message, to the requester only.
C24_RepeatedRequestRefused ==
  \A id \in conns :
    IF AlreadyStarted
    THEN Refused(onStartGame(Cur, id), id)
    ELSE Refused(onStopGame(Cur, id), id)

----------------------------------------------------------------------------
(* The variant that starts by itself (server.js): the join that brings the *)
(* roster to two or more schedules the first round.  It has no session, no *)
(* countdown, no ticker and no start, stop or leave request; its helper    *)
(* functions and its connection, stroke, clear and chat handlers have the  *)
(* text of the other variants', and its word list starts with the same     *)
(* words.  Its counted delays are in units of 1000 ms.                     *)

AUTO_START_DELAY == 2
AUTO_NEXT_ROUND_DELAY == 5
AUTO_MIN_PLAYERS == 2

startNewRoundAuto(s, w) ==
  With(Enter(s, "startNewRound", null), LAMBDA e :
  With([e EXCEPT !.currentDrawer = getNextDrawer(e)], LAMBDA s1 :
  IF s1.currentDrawer = null THEN [s1 EXCEPT !.gameActive = FALSE]
  ELSE
  With([s1 EXCEPT !.currentWord = w, !.gameActive = TRUE], LAMBDA s2 :
  With(Emit(s2, "clearBoard", ToAll, << >>), LAMBDA s3 :
  With(SysChat(s3, ToAll, "nowDrawing", NameOf(s3, s3.currentDrawer)), LAMBDA s4 :
  With(Emit(s4, "yourWord", ToOnly(s4.currentDrawer), [word |-> s4.currentWord]),
    LAMBDA s5 :
  With(broadcastGameState(s5), LAMBDA s6 :
  With(IF s6.roundTimer # 0 THEN clearTimer(s6, "round", s6.roundTimer) ELSE s6,
    LAMBDA s7 :
  [setTimer(s7, "round", 1, 0) EXCEPT !.roundTimer = NewHandle(s7, "round")]))))))))

endRoundAuto(s, someoneGuessed) ==
  With(Enter(s, "endRound", null), LAMBDA e :
  With(IF e.roundTimer # 0
       THEN [clearTimer(e, "round", e.roundTimer) EXCEPT !.roundTimer = 0]
       ELSE e, LAMBDA s1 :
  IF ~s1.gameActive THEN s1
  ELSE
  With([s1 EXCEPT !.gameActive = FALSE], LAMBDA s2 :
  With(SysChat(s2, ToAll, IF someoneGuessed THEN "roundEnded" ELSE "timesUp",
               s2.currentWord), LAMBDA s3 :
  setTimer([s3 EXCEPT !.currentWord = NoStr], "intermission",
           AUTO_NEXT_ROUND_DELAY, 0)))))

\* The timeout of startNewRound
roundCallbackAuto(s, t) ==
  With(Enter(Fired(s, t), "roundCallback", null), LAMBDA e : endRoundAuto(e, FALSE))

\* The timeout of endRound
intermissionCallbackAuto(s, t, w) ==
  With(Enter(Fired(s, t), "intermissionCallback", null), LAMBDA e :
  IF Len(Keys(e)) >= 1 THEN startNewRoundAuto(e, w) ELSE e)

\* The timeout of the join handler
delayedStartCallbackAuto(s, t, w) ==
  With(Enter(Fired(s, t), "delayedStartCallback", null), LAMBDA e :
  startNewRoundAuto(e, w))

onJoinAuto(s, id, name) ==
  With(Enter(s, "join", id), LAMBDA e :
  With(IF Trim(name) # NoStr THEN Trim(name) ELSE FallbackName(id), LAMBDA n :
  With(SetUser(e, id, n), LAMBDA s1 :
  With(IF ScoreOf(s1, n) = 0 THEN SetScore(s1, n, 0) ELSE s1, LAMBDA s2 :
  With(broadcastUserList(s2), LAMBDA s2a :
  With(broadcastScores(s2a), LAMBDA s3 :
  With(SysChat(s3, ToOnly(id), "welcome", n), LAMBDA s4 :
  With(SysChat(s4, ToOthers(id), "joined", n), LAMBDA s5 :
  IF Len(Keys(s5)) >= AUTO_MIN_PLAYERS /\ ~s5.gameActive /\ s5.currentDrawer = null
  THEN setTimer(s5, "delayedStart", AUTO_START_DELAY, 0)
  ELSE s5))))))))

AwardAuto(s, player) ==
  With(SetScore(s, player, ScoreOf(s, player) + GUESS_POINTS), LAMBDA s2 :
  With(NameOf(s2, s2.currentDrawer), LAMBDA drawerName :
  With(IF drawerName # NoStr
       THEN SetScore(s2, drawerName, ScoreOf(s2, drawerName) + DRAWER_POINTS)
       ELSE s2, LAMBDA s3 :
  With(SysChat(s3, ToAll, "guessedCorrectly", <<player, drawerName>>), LAMBDA s4 :
  With(broadcastScores(s4), LAMBDA s5 :
  endRoundAuto(s5, TRUE))))))

onGuessAuto(s, id, from, text) ==
  With(Enter(s, "guess", id), LAMBDA e :
  With(Trim(text), LAMBDA guessText :
  With(PlayerOf(e, id, from), LAMBDA player :
  IF guessText = NoStr THEN e
  ELSE With(UserChat(e, player, guessText), LAMBDA s1 :
       IF id = s1.currentDrawer THEN s1
       ELSE IF ~s1.gameActive \/ s1.currentWord = NoStr THEN s1
       ELSE IF ToLowerCase(guessText) = ToLowerCase(s1.currentWord)
            THEN AwardAuto(s1, player)
            ELSE s1))))

onDisconnectAuto(s, id) ==
  With(Enter([s EXCEPT !.conns = @ \ {id}], "disconnect", id), LAMBDA e :
  With(NameOf(e, id), LAMBDA name :
  IF name = NoStr THEN e
  ELSE
  With(IF id = e.currentDrawer
       THEN With(SysChat(e, ToAll, "drawerLeft", name),
              LAMBDA s0 : endRoundAuto(s0, FALSE))
       ELSE SysChat(e, ToAll, "left", name), LAMBDA s1 :
  With(DeleteUser(s1, id), LAMBDA s1a :
  With(broadcastUserList(s1a), LAMBDA s2 :
  IF Len(Keys(s2)) < AUTO_MIN_PLAYERS /\ s2.gameActive
  THEN With(endRoundAuto(s2, FALSE), LAMBDA s3 :
       SysChat(s3, ToAll, "notEnoughPlayers", << >>))
  ELSE s2)))))

\* A join is sent while it leaves at most MaxPendingStarts delayed starts
\* pending.
JoinAuto ==
  \E id \in conns :
    \E r \in {onJoinAuto(Cur, id, JoinName(id))} :
      /\ Cardinality({t \in r.timers : t.kind = "delayedStart"}) <= MaxPendingStarts
      /\ Becomes(r)

\* The clients guess under their own names, the board capped at
\* MaxPointsManual.
GuessAuto ==
  \E id \in conns, from \in {NoStr}, text \in GuessTexts :
    \E r \in {onGuessAuto(Cur, id, from, text)} :
      /\ SumPts(r.scores) <= MaxPointsManual
      /\ Becomes(r)

DisconnectAuto ==
  \E id \in conns : \E r \in {onDisconnectAuto(Cur, id)} : Becomes(r)

RoundTimerFiresAuto ==
  \E t \in timers :
    /\ t.kind = "round" /\ Due(t)
    /\ \E r \in {roundCallbackAuto(Cur, t)} : Becomes(r)

IntermissionFiresAuto ==
  \E t \in timers, w \in Pool :
    /\ t.kind = "intermission" /\ Due(t)
    /\ \E r \in {intermissionCallbackAuto(Cur, t, w)} : Becomes(r)

DelayedStartFiresAuto ==
  \E t \in timers, w \in Pool :
    /\ t.kind = "delayedStart" /\ Due(t)
    /\ \E r \in {delayedStartCallbackAuto(Cur, t, w)} : Becomes(r)

NextAuto ==
  \/ ConnectTrio
  \/ JoinAuto
  \/ DisconnectAuto
  \/ Stroke
  \/ ClearBoard
  \/ Chat
  \/ GuessAuto
  \/ RoundTimerFiresAuto
  \/ IntermissionFiresAuto
  \/ DelayedStartFiresAuto
  \/ Tick

SpecAuto == Init /\ [][NextAuto]_vars

\* What the round starts that are due do in the current state.
AutoStartSteps ==
  {delayedStartCallbackAuto(Cur, t, w) :
     t \in {u \in Pending("delayedStart") : u.left = 0}, w \in Pool}
    \cup {intermissionCallbackAuto(Cur, t, w) :
            t \in {u \in Pending("intermission") : u.left = 0}, w \in Pool}

\* C31: at most one delayed round start is pending at a time, and
\* startNewRound is never entered while a round is active: a round start
\* that is due never replaces a running round.
C31_OneStartAtATime ==
  /\ Cardinality(Pending("delayedStart")) <= 1
  /\ \A r \in AutoStartSteps :
       \A i \in 1..Len(r.log) : r.log[i].fn = "startNewRound" => ~r.log[i].active

====
